---- MODULE Spec2Model ----
(***************************************************************************)
(* A state-machine model of gpt-cli's conversation session                 *)
(* (src/src/chat_manager.rs) as it is driven by the command-line loop      *)
(* (src/src/main.rs).                                                      *)
(*                                                                         *)
(* Text is a sequence of one-character strings; Option<T> is the empty     *)
(* sequence (None) or a one-element sequence (Some).                       *)
(***************************************************************************)
EXTENDS Integers, Sequences, FiniteSets, TLC

VARIABLES
    pc,                       \* where the process is (see PcValues)
    history,                  \* ChatHistory.history
    token_usage,              \* ChatHistory.token_usage (total_tokens)
    conversation_start,       \* ChatHistory.conversation_start
    conversation_title,       \* ChatHistory.conversation_title
    no_stream,                \* Cli.no_stream
    response_role,            \* local of next_message_stream_stdout
    response_content_buffer,  \* local of next_message_stream_stdout
    consumed,                 \* the responses read so far in this turn
    term,                     \* what this loop iteration wrote to the terminal
    requests,                 \* the requests this loop iteration sent
    disk,                     \* the cache directory: file name -> document
    now,                      \* the local clock
    failure,                  \* why the iteration ended, "" while it has not
    pre,                      \* the session when the loop iteration began
    turn_base,                \* the log the turn's User message was pushed onto
    user_question,            \* the text the turn submits
    regenerating,             \* the iteration is a RegenerateResponse
    start_input,              \* how main built the session, and from what
    prev_estimate,            \* the count_tokens call before the latest one
    turns,                    \* turns begun so far
    items_read,               \* stream items read so far, over all turns
    saves,                    \* the save_to_file calls so far
    cache_dir,                \* the cache directory as read_dir reports it
    listing,                  \* get_all_saved_conversations: files, place, result
    asked,                    \* the questions submitted, a regenerate for the last
    input_history,            \* main's InMemoryHistory: max, history
    input_calls               \* the lines written to it, and the last read since

vars == <<pc, history, token_usage, conversation_start, conversation_title,
          no_stream, response_role, response_content_buffer,
          consumed, term, requests, disk, now, failure, pre, turn_base,
          user_question, regenerating, start_input, prev_estimate, turns,
          items_read, saves, cache_dir, listing, asked, input_history,
          input_calls>>

----------------------------------------------------------------------------
(* Bounds of the model *)

MaxLog == 5
MaxDeltas == 3
MaxClock == 4
MaxTurns == 2
MaxStreamedTurns == 1
LongTextTokens == 5000
MaxEntries == 3
MaxWrites == 22
MaxReadPos == 21
MaxRepeats == 1

----------------------------------------------------------------------------
(* Option<T> *)

None == <<>>
Some(x) == <<x>>
IsSome(o) == o # <<>>
Unwrap(o) == o[1]

(* Role, and its Display / serde form *)
Roles == {"System", "User", "Assistant"}

RoleToString(role) ==
    CASE role = "System" -> <<"s", "y", "s", "t", "e", "m">>
      [] role = "User" -> <<"u", "s", "e", "r">>
      [] role = "Assistant" -> <<"a", "s", "s", "i", "s", "t", "a", "n", "t">>

RoleFromString(text) ==
    CHOOSE role \in Roles : RoleToString(role) = text

(* ChatCompletionRequestMessage *)
Message(role, content, name) ==
    [role |-> role, content |-> content, name |-> name]

(* Vec::push *)
Push(log, message) == Append(log, message)

(* A faulty variant: the first element is removed *)
VecPopFront(log) ==
    IF Len(log) = 0
    THEN [log |-> log, popped |-> <<>>]
    ELSE [log |-> Tail(log), popped |-> <<Head(log)>>]

(* Vec::pop: the shortened log and the removed element *)
VecPop(log) ==
    IF Len(log) = 0
    THEN [log |-> log, popped |-> None]
    ELSE [log |-> SubSeq(log, 1, Len(log) - 1), popped |-> Some(log[Len(log)])]

pop_last_message(log) == VecPop(log)

(* Option<ChatCompletionRequestMessage>::unwrap_or_default().content *)
UnwrapOrDefaultContent(popped) ==
    IF IsSome(popped) THEN Unwrap(popped).content ELSE <<>>

----------------------------------------------------------------------------
(* The tokenizer: a greedy longest-match encoder over a small vocabulary   *)
(* in which, as in cl100k_base, each role label is a single token. Only    *)
(* the number of tokens is used. The character "L" stands for a long       *)
(* passage of LongTextTokens tokens.                                       *)

Vocabulary ==
    {RoleToString(role) : role \in Roles} \cup {<<"a", "b">>}

MatchLen(text) ==
    CHOOSE n \in 1..Len(text) :
        /\ n = 1 \/ SubSeq(text, 1, n) \in Vocabulary
        /\ \A k \in (n + 1)..Len(text) : SubSeq(text, 1, k) \notin Vocabulary

TokensOf(piece) == IF piece = <<"L">> THEN LongTextTokens ELSE 1

(* bpe.encode_with_special_tokens(text).len() *)
RECURSIVE EncodedLen(_)
EncodedLen(text) ==
    IF text = <<>>
    THEN 0
    ELSE LET n == MatchLen(text)
         IN  TokensOf(SubSeq(text, 1, n))
                 + EncodedLen(SubSeq(text, n + 1, Len(text)))

(* A faulty variant: the name is counted whatever the role *)
CountMessageAnyName(token_count, message) ==
    (IF IsSome(message.name)
     THEN token_count + 4 - 1 + EncodedLen(Unwrap(message.name))
     ELSE token_count + 4)
        + EncodedLen(RoleToString(message.role))
        + EncodedLen(message.content)

(* The body of count_tokens' for loop for one message *)
CountMessage(token_count, message) ==
    LET afterRole ==
            CASE message.role = "User" ->
                    IF IsSome(message.name)
                    THEN token_count + 4 - 1
                             + EncodedLen(Unwrap(message.name))
                    ELSE token_count + 4
              [] message.role = "System" -> token_count + 4
              [] message.role = "Assistant" -> token_count + 4
    IN  afterRole
            + EncodedLen(RoleToString(message.role))
            + EncodedLen(message.content)

RECURSIVE CountLoop(_, _, _)
CountLoop(log, i, token_count) ==
    IF i > Len(log)
    THEN token_count
    ELSE CountLoop(log, i + 1, CountMessage(token_count, log[i]))

CountStart == -1

count_tokens(log) == CountLoop(log, 1, CountStart)

CHAT_GPT_MODEL_TOKEN_LIMIT == 4096

(* A faulty variant: a log over the limit is cut to its last message *)
RequestMessagesWithinLimit(log) ==
    IF count_tokens(log) > CHAT_GPT_MODEL_TOKEN_LIMIT
    THEN <<log[Len(log)]>>
    ELSE log

(* A faulty variant: the request carries the new message alone *)
RequestMessagesLastOnly(log) == <<log[Len(log)]>>

(* .messages(self.history.clone()): the request carries the whole log *)
RequestMessages(log) == log

----------------------------------------------------------------------------
(* Persistence: ChatHistoryElement, ChatHistoryStorage and the file name   *)

ElementFromMessage(source) ==
    [role |-> source.role, content |-> source.content, name |-> source.name]

MessageFromElement(source) ==
    [role |-> source.role, content |-> source.content, name |-> source.name]

(* A faulty variant: the name is never written *)
SerializeElementWithoutName(element) ==
    [role |-> RoleToString(element.role), content |-> element.content]

(* serde: the role in lowercase, the name skipped when it is None *)
SerializeElement(element) ==
    IF IsSome(element.name)
    THEN [role |-> RoleToString(element.role), content |-> element.content,
          name |-> Unwrap(element.name)]
    ELSE [role |-> RoleToString(element.role), content |-> element.content]

DeserializeElement(mapping) ==
    [role |-> RoleFromString(mapping.role), content |-> mapping.content,
     name |-> IF "name" \in DOMAIN mapping THEN Some(mapping.name) ELSE None]

(* The document save_to_file writes: ChatHistoryStorage { messages } *)
StorageDocument(log) ==
    [messages |-> [i \in 1..Len(log) |-> SerializeElement(ElementFromMessage(log[i]))]]

Session(log, usage, start, title) ==
    [history |-> log, token_usage |-> usage, conversation_start |-> start,
     conversation_title |-> title]

(* load_from_file: the session built from a document *)
LoadedSession(document) ==
    Session([i \in 1..Len(document.messages) |->
                 MessageFromElement(DeserializeElement(document.messages[i]))],
            None, None, None)

to_rfc3339(time) == "T" \o ToString(time)

FileName(title, time) ==
    (IF IsSome(title) THEN Unwrap(title) \o <<"_">> ELSE <<>>)
        \o <<to_rfc3339(time), ".yaml">>

WriteFile(files, name, document) ==
    [f \in DOMAIN files \cup {name} |-> IF f = name THEN document ELSE files[f]]

(* str::trim, on the whitespace the model's texts hold *)
RECURSIVE TrimStart(_)
TrimStart(text) ==
    IF text # <<>> /\ Head(text) = " " THEN TrimStart(Tail(text)) ELSE text

RECURSIVE TrimEnd(_)
TrimEnd(text) ==
    IF text # <<>> /\ text[Len(text)] = " "
    THEN TrimEnd(SubSeq(text, 1, Len(text) - 1))
    ELSE text

Trim(text) == TrimEnd(TrimStart(text))

----------------------------------------------------------------------------
(* Inputs: what the user, the remote service and the file system supply    *)

Prompts == {<<"p">>, <<"q">>}
UserTexts == {<<"h", "i">>}
Replies ==
    {[role |-> "Assistant", content |-> <<"a">>, usage |-> Some(7)],
     [role |-> "Assistant", content |-> <<"a", "b">>, usage |-> None],
     [role |-> "System", content |-> <<"a", "b">>, usage |-> None]}
TitleTexts == {<<"t">>, <<" ", "u", " ">>}

(* One item of the completion stream: a transport or decoding error, or a  *)
(* response with or without a first choice.                                *)
StreamItem(kind, has_choice, role, content, usage) ==
    [kind |-> kind, has_choice |-> has_choice, role |-> role,
     content |-> content, usage |-> usage]

StreamItems ==
    {StreamItem("err", FALSE, None, None, None),
     StreamItem("ok", FALSE, None, None, Some(9)),
     StreamItem("ok", TRUE, Some("Assistant"), None, Some(8)),
     StreamItem("ok", TRUE, Some("User"), Some(<<"b">>), Some(7)),
     StreamItem("ok", TRUE, None, Some(<<"a">>), None),
     StreamItem("ok", TRUE, None, Some(<<>>), None)}

(* A document in the cache directory that this program did not write *)
ForeignLog ==
    <<Message("System", <<"p">>, Some(<<"b", "a">>)),
      Message("User", <<"a", "b">>, Some(<<"b", "b">>)),
      Message("Assistant", <<"L">>, Some(<<"a">>))>>

(* Sessions an earlier run of the program saved, at time 0: a fresh one    *)
(* after one turn, and one loaded from a foreign file and regenerated.     *)
EarlierSessions ==
    {Session(<<Message("System", <<"p">>, None),
               Message("User", <<"h", "i">>, None),
               Message("Assistant", <<"a">>, None)>>,
             Some(7), Some(0), Some(<<"t">>)),
     Session(<<Message("System", <<"p">>, Some(<<"b", "a">>)),
               Message("User", <<"a", "b">>, None),
               Message("System", <<"a", "b">>, None)>>,
             None, None, Some(<<"u">>))}

EarlierSaveTime(session) ==
    IF IsSome(session.conversation_start)
    THEN Unwrap(session.conversation_start)
    ELSE 0

SavedName(session) ==
    FileName(session.conversation_title, EarlierSaveTime(session))

InitialDisk ==
    [name \in {<<"x.yaml">>, <<"e.yaml">>}
               \cup {SavedName(session) : session \in EarlierSessions} |->
        CASE name = <<"x.yaml">> -> StorageDocument(ForeignLog)
          [] name = <<"e.yaml">> -> StorageDocument(<<>>)
          [] OTHER ->
                StorageDocument(
                    (CHOOSE session \in EarlierSessions :
                         SavedName(session) = name).history)]

(* The session save_to_file wrote a file from, when an earlier run did *)
SavedFrom(name) ==
    IF \E session \in EarlierSessions : SavedName(session) = name
    THEN Some(CHOOSE session \in EarlierSessions : SavedName(session) = name)
    ELSE None

StartInput(how, prompt, saved) ==
    [how |-> how, prompt |-> prompt, saved |-> saved]

EmptySession == Session(<<>>, None, None, None)

CurrentSession ==
    Session(history, token_usage, conversation_start, conversation_title)

(* One call on the terminal *)
TermEntry(op, text, value) == [op |-> op, text |-> text, value |-> value]

ChatRequest(kind, purpose, messages) ==
    [kind |-> kind, purpose |-> purpose, messages |-> messages]

PcValues ==
    {"input", "list", "listing", "listed", "start", "started", "prompt", "await_reply", "await_stream", "streaming",
     "await_title_nostream", "await_title_stream", "await_title_forced",
     "failed", "panicked", "abandoned"}

(* An entry of the cache directory: a file, a directory with what is      *)
(* inside it, or an entry read_dir fails on                               *)
DirEntry(name, kind, inside) ==
    [name |-> name, kind |-> kind, inside |-> inside]

EntryNames == {<<"a">>, <<"b">>, <<"c">>, <<"d">>}
EntryKinds == {"file", "dir", "error"}

InsideOf(name, kind) == IF kind = "dir" THEN {name \o <<"/", "a">>} ELSE {}

DirEntries ==
    {DirEntry(name, kind, InsideOf(name, kind)) :
         name \in EntryNames, kind \in EntryKinds}

RECURSIVE Listings(_)
Listings(len) ==
    IF len = 0
    THEN {<<>>}
    ELSE Listings(len - 1)
             \cup {Append(entries, entry) :
                       entries \in {e \in Listings(len - 1) : Len(e) = len - 1},
                       entry \in DirEntries}

DistinctNames(entries) ==
    \A i, j \in 1..Len(entries) :
        i # j => entries[i].name # entries[j].name

CacheDir(readable, entries) == [readable |-> readable, entries |-> entries]

CacheDirs ==
    {CacheDir(readable, entries) :
         readable \in BOOLEAN,
         entries \in {e \in Listings(MaxEntries) : DistinctNames(e)}}

Listing(files, pos, result) ==
    [files |-> files, pos |-> pos, result |-> result]

NotListed == Listing(<<>>, 0, "")

(* InMemoryHistory: the VecDeque has its front at index 1 *)
HistoryMax == 20

InMemoryHistoryDefault == [max |-> HistoryMax, history |-> <<>>]

PushFront(deque, val) == <<val>> \o deque

PopBack(deque) == SubSeq(deque, 1, Len(deque) - 1)

(* self.history.get(pos).cloned() *)
HistoryRead(h, pos) ==
    IF pos < Len(h.history) THEN Some(h.history[pos + 1]) ELSE None

(* A faulty variant: a full history gives up its newest entry *)
HistoryWriteEvictingNewest(h, val) ==
    [h EXCEPT !.history =
         PushFront(IF Len(@) = h.max THEN Tail(@) ELSE @, val)]

(* if len == max { pop_back() }; push_front(val.to_string()), where val is *)
(* the String dialoguer read, whose to_string is a copy                    *)
HistoryWrite(h, val) ==
    [h EXCEPT !.history =
         PushFront(IF Len(@) = h.max THEN PopBack(@) ELSE @, val)]

(* The lines typed: the n-th distinct line is the two digits of n *)
Digit == <<"0", "1", "2", "3", "4", "5", "6", "7", "8", "9">>

Line(n) == <<Digit[(n \div 10) + 1], Digit[(n % 10) + 1]>>

Distinct(lines) == Cardinality({lines[i] : i \in 1..Len(lines)})

(* What is typed next: a new line, or the line before once more *)
NextLines(written) ==
    LET d == Distinct(written)
    IN  {Line(d + 1)} \cup
        (IF d >= 1 /\ Len(written) - d < MaxRepeats THEN {Line(d)} ELSE {})

HistoryCalls(written, pos, result) ==
    [written |-> written, read |-> [pos |-> pos, result |-> result]]

NoCalls == HistoryCalls(<<>>, -1, None)

----------------------------------------------------------------------------
(* The state main starts from, but for where it is and the directory *)
Fresh ==
    /\ history = <<>>
    /\ token_usage = None
    /\ conversation_start = None
    /\ conversation_title = None
    /\ no_stream = FALSE
    /\ response_role = None
    /\ response_content_buffer = <<>>
    /\ consumed = <<>>
    /\ term = <<>>
    /\ requests = <<>>
    /\ disk = InitialDisk
    /\ now = 1
    /\ failure = ""
    /\ pre = EmptySession
    /\ turn_base = <<>>
    /\ user_question = <<>>
    /\ regenerating = FALSE
    /\ start_input = StartInput("", <<>>, None)
    /\ prev_estimate = None
    /\ turns = 0
    /\ items_read = 0
    /\ saves = <<>>
    /\ listing = NotListed
    /\ asked = <<>>
    /\ input_history = InMemoryHistoryDefault
    /\ input_calls = NoCalls

Init ==
    /\ pc = "start"
    /\ cache_dir = CacheDir(TRUE, <<>>)
    /\ history = <<>>
    /\ token_usage = None
    /\ conversation_start = None
    /\ conversation_title = None
    /\ no_stream = FALSE
    /\ response_role = None
    /\ response_content_buffer = <<>>
    /\ consumed = <<>>
    /\ term = <<>>
    /\ requests = <<>>
    /\ disk = InitialDisk
    /\ now = 1
    /\ failure = ""
    /\ pre = EmptySession
    /\ turn_base = <<>>
    /\ user_question = <<>>
    /\ regenerating = FALSE
    /\ start_input = StartInput("", <<>>, None)
    /\ prev_estimate = None
    /\ turns = 0
    /\ items_read = 0
    /\ saves = <<>>
    /\ listing = NotListed
    /\ asked = <<>>
    /\ input_history = InMemoryHistoryDefault
    /\ input_calls = NoCalls

SetSession(session) ==
    /\ history' = session.history
    /\ token_usage' = session.token_usage
    /\ conversation_start' = session.conversation_start
    /\ conversation_title' = session.conversation_title

ResetIteration ==
    /\ response_role' = None
    /\ response_content_buffer' = <<>>
    /\ consumed' = <<>>
    /\ term' = <<>>
    /\ requests' = <<>>
    /\ failure' = ""
    /\ turn_base' = history'
    /\ user_question' = <<>>
    /\ regenerating' = FALSE

(* A faulty variant: the seed message is pushed with the default role *)
NewSessionUserSeed(prompt, time) ==
    Session(<<Message("User", prompt, None)>>, None, Some(time), None)

(* ChatHistory::new *)
NewSession(prompt, time) ==
    Session(<<Message("System", prompt, None)>>, None, Some(time), None)

(* main: a fresh session *)
StartNew ==
    /\ pc = "start"
    /\ now < MaxClock
    /\ \E prompt \in Prompts :
           /\ SetSession(NewSession(prompt, now))
           /\ pre' = NewSession(prompt, now)
           /\ start_input' = StartInput("new", prompt, None)
    /\ now' = now + 1
    /\ no_stream' \in BOOLEAN
    /\ pc' = "started"
    /\ ResetIteration
    /\ UNCHANGED <<disk, turns, prev_estimate, items_read, saves, cache_dir,
                   listing, asked, input_history, input_calls>>

(* main: --file / --select-file *)
StartLoad ==
    /\ pc = "start"
    /\ \E file \in DOMAIN disk :
           /\ SetSession(LoadedSession(disk[file]))
           /\ pre' = LoadedSession(disk[file])
           /\ start_input' = StartInput("load", <<>>, SavedFrom(file))
    /\ no_stream' \in BOOLEAN
    /\ pc' = "started"
    /\ ResetIteration
    /\ UNCHANGED <<disk, now, turns, prev_estimate, items_read, saves,
                   cache_dir, listing, asked, input_history, input_calls>>

----------------------------------------------------------------------------
(* The loop iteration of main and the turn it runs *)

flags == <<no_stream, start_input, items_read, cache_dir, listing,
           input_history, input_calls>>
store == <<disk, now, saves>>
turn_ghosts == <<pre, turn_base, user_question, regenerating, turns,
                 prev_estimate, asked>>
stream_locals == <<response_role, response_content_buffer, consumed>>
session_meta == <<token_usage, conversation_start, conversation_title>>

HelpLine == <<"/", "?">>

(* main: term.write_line("Write /? to get help") and into the loop *)
EnterLoop ==
    /\ pc = "started"
    /\ pc' = "prompt"
    /\ term' = <<TermEntry("write_line", HelpLine, 0)>>
    /\ UNCHANGED <<history, session_meta, flags, store, turn_ghosts,
                   stream_locals, requests, failure>>

RobotLine == <<"C", "h", "a", "t", "G", "P", "T", ":">>
TitleQuestion == <<"t", "i", "t", "l", "e", "?">>

(* A faulty variant: only the reply is popped *)
RegenerateLogOnePop(log) == pop_last_message(log).log

(* A faulty variant: a log of fewer than two messages is left alone *)
RegenerateLogKeepingSeed(log) ==
    IF Len(log) < 2
    THEN log
    ELSE pop_last_message(pop_last_message(log).log).log

(* UserActions::RegenerateResponse: two pops, the second one's content *)
RegenerateLog(log) == pop_last_message(pop_last_message(log).log).log

RegenerateQuestion(log) ==
    UnwrapOrDefaultContent(pop_last_message(pop_last_message(log).log).popped)

(* next_message / next_message_stream_stdout up to the first await *)
BeginTurn(question, base, regen) ==
    /\ pc = "prompt"
    /\ Len(base) + 2 <= MaxLog
    /\ turns < MaxTurns
    /\ ~no_stream => turns < MaxStreamedTurns
    /\ conversation_start = None => now < MaxClock
    /\ turns' = turns + 1
    /\ history' = Push(base, Message("User", question, None))
    /\ requests' = <<ChatRequest(IF no_stream THEN "create" ELSE "create_stream",
                                 "reply", RequestMessages(history'))>>
    /\ pc' = IF no_stream THEN "await_reply" ELSE "await_stream"
    /\ pre' = CurrentSession
    /\ turn_base' = base
    /\ user_question' = question
    /\ regenerating' = regen
    /\ term' = <<TermEntry("write_line", RobotLine, 0)>>
    /\ failure' = ""
    /\ response_role' = None
    /\ response_content_buffer' = <<>>
    /\ consumed' = <<>>
    /\ prev_estimate' = None
    /\ asked' = IF regen THEN asked ELSE Append(asked, question)
    /\ UNCHANGED <<session_meta, flags, store>>

Ask == \E question \in UserTexts : BeginTurn(question, history, FALSE)

Regenerate ==
    BeginTurn(RegenerateQuestion(history), RegenerateLog(history), TRUE)

(* save_to_file *)
SaveTime(session) ==
    IF IsSome(session.conversation_start)
    THEN Unwrap(session.conversation_start)
    ELSE now

SaveToFile(session) ==
    LET name == FileName(session.conversation_title, SaveTime(session))
    IN  /\ disk' = WriteFile(disk, name, StorageDocument(session.history))
        /\ now' = IF IsSome(session.conversation_start) THEN now ELSE now + 1
        /\ saves' = Append(saves, [name |-> name,
                                   title |-> session.conversation_title,
                                   start |-> session.conversation_start,
                                   files |-> DOMAIN disk'])

(* main after the turn returned Ok: the end of the loop iteration, for a   *)
(* run without --no-save                                                   *)
ReturnToMain(session) ==
    /\ pc' = "prompt"
    /\ failure' = ""
    /\ SaveToFile(session)

(* populate_title's request: the meta question on a copy of the log *)
TitleRequest(log) ==
    ChatRequest("create", "title",
                Push(log, Message("User", TitleQuestion, None)))

(* A faulty variant: the title is asked for whether there is one or not *)
PopulateTitleAlways(caller, session) ==
    /\ pc' = caller
    /\ requests' = Append(requests, TitleRequest(session.history))
    /\ failure' = ""
    /\ UNCHANGED store

(* populate_title_if_empty, called with the reply already pushed *)
PopulateTitleIfEmpty(caller, session) ==
    IF session.conversation_title = None
    THEN /\ pc' = caller
         /\ requests' = Append(requests, TitleRequest(session.history))
         /\ failure' = ""
         /\ UNCHANGED store
    ELSE /\ requests' = requests
         /\ ReturnToMain(session)

(* A faulty variant: the request is sent again, once *)
ReplyErrorRetrying ==
    /\ pc = "await_reply"
    /\ Len(requests) = 1
    /\ pc' = "await_reply"
    /\ failure' = ""
    /\ requests' = Append(requests, requests[1])
    /\ UNCHANGED <<history, session_meta, flags, store, turn_ghosts,
                   stream_locals, term>>

(* next_message: the request failed *)
ReplyError ==
    /\ pc = "await_reply"
    /\ pc' = "failed"
    /\ failure' = "transport"
    /\ UNCHANGED <<history, session_meta, flags, store, turn_ghosts,
                   stream_locals, term, requests>>

(* next_message: response.choices[0] on a response without a choice *)
ReplyNoChoice ==
    /\ pc = "await_reply"
    /\ pc' = "panicked"
    /\ failure' = "no choice"
    /\ UNCHANGED <<history, session_meta, flags, store, turn_ghosts,
                   stream_locals, term, requests>>

(* next_message: the reply is pushed, usage assigned, the title ensured *)
ReplyOk ==
    /\ pc = "await_reply"
    /\ \E reply \in Replies :
           /\ history' = Push(history, Message(reply.role, reply.content, None))
           /\ token_usage' = reply.usage
           /\ consumed' = <<StreamItem("ok", TRUE, Some(reply.role),
                                       Some(reply.content), reply.usage)>>
           /\ term' = IF conversation_title = None
                      THEN term
                      ELSE Append(term, TermEntry("write_line", reply.content, 0))
           /\ PopulateTitleIfEmpty("await_title_nostream",
                                   Session(history', token_usage',
                                           conversation_start, conversation_title))
    /\ UNCHANGED <<conversation_start, conversation_title, flags, turn_ghosts,
                   response_role, response_content_buffer>>

----------------------------------------------------------------------------
(* populate_title *)

TitleCallers ==
    {"await_title_nostream", "await_title_stream", "await_title_forced"}

(* UserActions::RecreateTitle *)
RecreateTitle ==
    /\ pc = "prompt"
    /\ pc' = "await_title_forced"
    /\ requests' = <<TitleRequest(history)>>
    /\ pre' = CurrentSession
    /\ turn_base' = history
    /\ user_question' = <<>>
    /\ regenerating' = FALSE
    /\ term' = <<>>
    /\ failure' = ""
    /\ response_role' = None
    /\ response_content_buffer' = <<>>
    /\ consumed' = <<>>
    /\ prev_estimate' = None
    /\ UNCHANGED <<history, session_meta, flags, store, turns, asked>>

(* A faulty variant: the failing title request takes the reply back *)
TitleErrorRollingBack ==
    /\ pc \in TitleCallers
    /\ pc' = "failed"
    /\ failure' = "title transport"
    /\ history' = IF requests[1].purpose = "reply"
                  THEN VecPop(history).log
                  ELSE history
    /\ UNCHANGED <<session_meta, flags, store, turn_ghosts, stream_locals,
                   term, requests>>

TitleError ==
    /\ pc \in TitleCallers
    /\ pc' = "failed"
    /\ failure' = "title transport"
    /\ UNCHANGED <<history, session_meta, flags, store, turn_ghosts,
                   stream_locals, term, requests>>

(* response.choices[0] on a response without a choice *)
TitleNoChoice ==
    /\ pc \in TitleCallers
    /\ pc' = "panicked"
    /\ failure' = "no choice"
    /\ UNCHANGED <<history, session_meta, flags, store, turn_ghosts,
                   stream_locals, term, requests>>

NewTitle(text) == Some(Trim(text))

LastContent(log) == log[Len(log)].content

TitleOk ==
    /\ pc \in TitleCallers
    /\ \E text \in TitleTexts : conversation_title' = NewTitle(text)
    /\ CASE pc = "await_title_forced" ->
                /\ pc' = "prompt"
                /\ failure' = ""
                /\ term' = term
                /\ UNCHANGED store
         [] pc = "await_title_nostream" ->
                /\ term' = Append(term, TermEntry("write_line",
                                                  LastContent(history), 0))
                /\ ReturnToMain(Session(history, token_usage,
                                        conversation_start, conversation_title'))
         [] pc = "await_title_stream" ->
                /\ term' = Append(term, TermEntry("set_title",
                                                  Unwrap(conversation_title'), 0))
                /\ ReturnToMain(Session(history, token_usage,
                                        conversation_start, conversation_title'))
    /\ UNCHANGED <<history, token_usage, conversation_start, flags, turn_ghosts,
                   stream_locals, requests>>

----------------------------------------------------------------------------
(* next_message_stream_stdout *)

StreamOpenError ==
    /\ pc = "await_stream"
    /\ pc' = "failed"
    /\ failure' = "transport"
    /\ UNCHANGED <<history, session_meta, flags, store, turn_ghosts,
                   stream_locals, term, requests>>

(* create_stream returned; term.hide_cursor()? *)
StreamOpen ==
    /\ pc = "await_stream"
    /\ \/ /\ pc' = "streaming"
          /\ failure' = ""
          /\ term' = Append(term, TermEntry("hide_cursor", <<>>, 0))
       \/ /\ pc' = "failed"
          /\ failure' = "hide_cursor"
          /\ term' = term
    /\ UNCHANGED <<history, session_meta, flags, store, turn_ghosts,
                   stream_locals, requests>>

(* A faulty variant: the usage is assigned whether it is there or not *)
UsageAfterAssigning(usage, item) == item.usage

(* if let Some(new_usage) = response.usage *)
UsageAfter(usage, item) ==
    IF IsSome(item.usage) THEN item.usage ELSE usage

(* A faulty variant: the role is assigned whether it is there or not *)
RoleAfterAssigning(role, item) == item.role

(* if let Some(role) = &delta.role *)
RoleAfter(role, item) ==
    IF IsSome(item.role) THEN item.role ELSE role

(* A faulty variant: the fragment is put in front of the buffer *)
BufferAfterPrepending(buffer, item) ==
    IF IsSome(item.content) THEN Unwrap(item.content) \o buffer ELSE buffer

(* response_content_buffer.push_str(delta_content) *)
BufferAfter(buffer, item) ==
    IF IsSome(item.content) THEN buffer \o Unwrap(item.content) ELSE buffer

(* A faulty variant: an absent content is written as the empty string *)
TermAfterWritingAbsent(written, item) ==
    Append(written,
           TermEntry("write_str",
                     IF IsSome(item.content) THEN Unwrap(item.content) ELSE <<>>,
                     0))

(* term.write_str(delta_content) *)
TermAfter(written, item) ==
    IF IsSome(item.content)
    THEN Append(written, TermEntry("write_str", Unwrap(item.content), 0))
    ELSE written

(* A faulty variant: the error path pushes what the buffer holds *)
StreamFailKeepingPartial(kind) ==
    /\ pc' = "failed"
    /\ failure' = kind
    /\ history' = Push(history, Message("Assistant", response_content_buffer, None))

(* A `?` inside the loop returns the error: the locals are dropped and no  *)
(* message is pushed                                                       *)
StreamFail(kind) ==
    /\ pc' = "failed"
    /\ failure' = kind
    /\ history' = history

(* One pass of the while-let loop: stream.next() yielded an item *)
StreamNext ==
    /\ pc = "streaming"
    /\ items_read < MaxDeltas
    /\ items_read' = items_read + 1
    /\ \E item \in StreamItems :
           /\ consumed' = Append(consumed, item)
           /\ \/ /\ item.kind = "err"
                 /\ StreamFail("decode")
                 /\ UNCHANGED <<token_usage, response_role,
                                response_content_buffer, term>>
              \/ /\ item.kind = "ok"
                 /\ ~item.has_choice
                 /\ token_usage' = UsageAfter(token_usage, item)
                 /\ StreamFail("no choice")
                 /\ UNCHANGED <<response_role, response_content_buffer, term>>
              \/ /\ item.kind = "ok"
                 /\ item.has_choice
                 /\ token_usage' = UsageAfter(token_usage, item)
                 /\ response_role' = RoleAfter(response_role, item)
                 /\ response_content_buffer' =
                        BufferAfter(response_content_buffer, item)
                 /\ \/ /\ term' = TermAfter(term, item)
                       /\ pc' = "streaming"
                       /\ failure' = ""
                       /\ history' = history
                    \/ /\ IsSome(item.content)
                       /\ term' = term
                       /\ StreamFail("sink")
    /\ UNCHANGED <<conversation_start, conversation_title, no_stream,
                   start_input, store, turn_ghosts, requests, cache_dir,
                   listing, input_history, input_calls>>

(* The lines written between the loop and the push *)
ClosingLines(usage, log) ==
    <<TermEntry("write_line", <<"\n">>, 0)>>
        \o (IF IsSome(usage)
            THEN <<TermEntry("recorded", <<>>, Unwrap(usage))>>
            ELSE <<>>)
        \o <<TermEntry("estimated", <<>>, count_tokens(log)),
             TermEntry("show_cursor", <<>>, 0)>>

(* response_role.unwrap_or(Role::Assistant) *)
StreamedRole(role) == IF IsSome(role) THEN Unwrap(role) ELSE "Assistant"

StreamedMessage(role, buffer) == Message(StreamedRole(role), buffer, None)

(* stream.next() yielded None: the closing lines, the push, the title *)
StreamEnd ==
    /\ pc = "streaming"
    /\ \/ /\ term' = term \o ClosingLines(token_usage, history)
             \o (IF IsSome(conversation_title)
                 THEN <<TermEntry("set_title", Unwrap(conversation_title), 0)>>
                 ELSE <<>>)
          /\ history' = Push(history,
                             StreamedMessage(response_role,
                                             response_content_buffer))
          /\ PopulateTitleIfEmpty("await_title_stream",
                                  Session(history', token_usage,
                                          conversation_start, conversation_title))
       \/ /\ term' = term
          /\ pc' = "failed"
          /\ failure' = "closing write"
          /\ UNCHANGED <<history, requests, store>>
    /\ UNCHANGED <<session_meta, flags, turn_ghosts, stream_locals>>

(* The caller drops the future at an await *)
AwaitPcs ==
    {"await_reply", "await_stream", "streaming"} \cup TitleCallers

Abandon ==
    /\ pc \in AwaitPcs
    /\ pc' = "abandoned"
    /\ failure' = pc
    /\ UNCHANGED <<history, session_meta, flags, store, turn_ghosts,
                   stream_locals, term, requests>>

----------------------------------------------------------------------------
(* print_history *)

HasEstimate(written) ==
    \E i \in 1..Len(written) : written[i].op = "estimated"

EstimateOf(written) ==
    written[CHOOSE i \in 1..Len(written) : written[i].op = "estimated"].value

(* The log count_tokens read for the estimate on the terminal: print_history *)
(* reads the whole log, the streamed turn the log before the reply's push  *)
EstimatedLog ==
    IF requests = <<>>
    THEN history
    ELSE Push(turn_base, Message("User", user_question, None))

PrintedLines(usage, log) ==
    (IF IsSome(usage)
     THEN <<TermEntry("recorded", <<>>, Unwrap(usage))>>
     ELSE <<>>)
        \o <<TermEntry("estimated", <<>>, count_tokens(log))>>

PrintHistory ==
    /\ pc = "prompt"
    /\ \E written \in BOOLEAN :
           IF written
           THEN /\ term' = PrintedLines(token_usage, history)
                /\ failure' = ""
                /\ pc' = pc
           ELSE /\ term' = <<>>
                /\ failure' = "print"
                /\ pc' = "failed"
    /\ prev_estimate' =
           IF HasEstimate(term)
           THEN Some([log |-> EstimatedLog, value |-> EstimateOf(term)])
           ELSE prev_estimate
    /\ requests' = <<>>
    /\ pre' = CurrentSession
    /\ turn_base' = history
    /\ user_question' = <<>>
    /\ regenerating' = FALSE
    /\ response_role' = None
    /\ response_content_buffer' = <<>>
    /\ consumed' = <<>>
    /\ UNCHANGED <<history, session_meta, flags, store, turns, asked>>

Next ==
    \/ StartNew
    \/ StartLoad
    \/ EnterLoop
    \/ Ask
    \/ Regenerate
    \/ RecreateTitle
    \/ PrintHistory
    \/ ReplyError
    \/ ReplyNoChoice
    \/ ReplyOk
    \/ TitleError
    \/ TitleNoChoice
    \/ TitleOk
    \/ StreamOpenError
    \/ StreamOpen
    \/ StreamNext
    \/ StreamEnd
    \/ Abandon

Spec == Init /\ [][Next]_vars

----------------------------------------------------------------------------
(* get_all_saved_conversations, over the directories it may find *)

ListInit ==
    /\ pc = "list"
    /\ cache_dir \in CacheDirs
    /\ Fresh

session_state == <<history, session_meta, no_stream, start_input, items_read,
                   store, turn_ghosts, stream_locals, term, requests, failure,
                   input_history, input_calls>>

(* std::fs::read_dir(cache_dir)? *)
ReadDir ==
    /\ pc = "list"
    /\ IF cache_dir.readable
       THEN /\ pc' = "listing"
            /\ listing' = Listing(<<>>, 0, "")
       ELSE /\ pc' = "listed"
            /\ listing' = Listing(<<>>, 0, "err")
    /\ UNCHANGED <<cache_dir, session_state>>

(* A faulty variant: every entry is pushed *)
FilesAfterAnyEntry(files, entry) == Append(files, entry.name)

(* if path.is_file() { files.push(path) } *)
FilesAfter(files, entry) ==
    IF entry.kind = "file" THEN Append(files, entry.name) ELSE files

(* One pass of the for loop: let entry = entry?; *)
NextEntry ==
    /\ pc = "listing"
    /\ listing.pos < Len(cache_dir.entries)
    /\ LET entry == cache_dir.entries[listing.pos + 1]
       IN  IF entry.kind = "error"
           THEN /\ pc' = "listed"
                /\ listing' = Listing(<<>>, listing.pos + 1, "err")
           ELSE /\ pc' = "listing"
                /\ listing' = Listing(FilesAfter(listing.files, entry),
                                      listing.pos + 1, "")
    /\ UNCHANGED <<cache_dir, session_state>>

(* Ok(files) *)
EndOfDir ==
    /\ pc = "listing"
    /\ listing.pos = Len(cache_dir.entries)
    /\ pc' = "listed"
    /\ listing' = Listing(listing.files, listing.pos, "ok")
    /\ UNCHANGED <<cache_dir, session_state>>

ListNext ==
    \/ ReadDir
    \/ NextEntry
    \/ EndOfDir

SpecList == ListInit /\ [][ListNext]_vars

----------------------------------------------------------------------------
(* The input history on its own. dialoguer's Input holds main's            *)
(* InMemoryHistory while it reads a line (main.rs:133-136) and calls       *)
(* write and read on it from its own code; here the two are called in any  *)
(* order, with any position.                                               *)
HistoryInit ==
    /\ pc = "input"
    /\ cache_dir = CacheDir(TRUE, <<>>)
    /\ Fresh

chat_state == <<pc, history, session_meta, no_stream, start_input, items_read,
                store, turn_ghosts, stream_locals, term, requests, failure,
                cache_dir, listing>>

(* History::write *)
WriteLine ==
    /\ pc = "input"
    /\ Len(input_calls.written) < MaxWrites
    /\ \E val \in NextLines(input_calls.written) :
           /\ input_history' = HistoryWrite(input_history, val)
           /\ input_calls' = HistoryCalls(Append(input_calls.written, val),
                                          -1, None)
    /\ UNCHANGED chat_state

(* History::read *)
ReadLine ==
    /\ pc = "input"
    /\ \E pos \in 0..MaxReadPos :
           input_calls' = HistoryCalls(input_calls.written, pos,
                                       HistoryRead(input_history, pos))
    /\ UNCHANGED <<input_history, chat_state>>

HistoryNext ==
    \/ WriteLine
    \/ ReadLine

SpecHistory == HistoryInit /\ [][HistoryNext]_vars

TypeOK ==
    /\ pc \in PcValues
    /\ Len(history) <= MaxLog
    /\ now \in 0..MaxClock
    /\ turns \in 0..MaxTurns
    /\ items_read \in 0..MaxDeltas
    /\ Len(input_calls.written) <= MaxWrites
    /\ input_calls.read.pos \in -1..MaxReadPos

----------------------------------------------------------------------------
(* Predicates the properties share *)

UserMessage(text) == Message("User", text, None)

IsPrefix(short, long) ==
    /\ Len(short) <= Len(long)
    /\ SubSeq(long, 1, Len(short)) = short

Last(log) == log[Len(log)]

(* The iteration is a turn (not a retitle, not a print) *)
InTurn == requests # <<>> /\ requests[1].purpose = "reply"

StreamedTurn == InTurn /\ requests[1].kind = "create_stream"

PlainTurn == InTurn /\ requests[1].kind = "create"

(* The turn returned Ok and main finished the iteration *)
TurnDone == InTurn /\ pc = "prompt"

----------------------------------------------------------------------------
(* C1: the round trip through save_to_file and load_from_file *)

JustLoaded ==
    /\ pc = "started"
    /\ start_input.how = "load"
    /\ IsSome(start_input.saved)

SavedSession == Unwrap(start_input.saved)

----------------------------------------------------------------------------
(* C2, C3: the streamed turn *)

(* The content fragments of the items read, in arrival order *)
RECURSIVE Fragments(_)
Fragments(items) ==
    IF items = <<>>
    THEN <<>>
    ELSE LET item == items[Len(items)]
         IN  Fragments(SubSeq(items, 1, Len(items) - 1))
                 \o (IF item.kind = "ok" /\ item.has_choice /\ IsSome(item.content)
                     THEN <<Unwrap(item.content)>>
                     ELSE <<>>)

RECURSIVE Concat(_)
Concat(texts) ==
    IF texts = <<>> THEN <<>> ELSE Head(texts) \o Concat(Tail(texts))

(* What write_str put on the terminal, in the order of the calls *)
RECURSIVE Written(_)
Written(entries) ==
    IF entries = <<>>
    THEN <<>>
    ELSE (IF Head(entries).op = "write_str" THEN <<Head(entries).text>> ELSE <<>>)
             \o Written(Tail(entries))

(* The role of the last item that carried one, and likewise the usage *)
RECURSIVE LastRole(_)
LastRole(items) ==
    IF items = <<>>
    THEN None
    ELSE IF IsSome(items[Len(items)].role)
         THEN items[Len(items)].role
         ELSE LastRole(SubSeq(items, 1, Len(items) - 1))

RECURSIVE LastUsage(_, _)
LastUsage(items, before) ==
    IF items = <<>>
    THEN before
    ELSE IF IsSome(items[Len(items)].usage)
         THEN items[Len(items)].usage
         ELSE LastUsage(SubSeq(items, 1, Len(items) - 1), before)

LogAfterSetup == Push(turn_base, UserMessage(user_question))

(* The streamed turn ended before stream.next() yielded None *)
CutShort ==
    /\ StreamedTurn
    /\ \/ pc = "failed" /\ failure \in {"decode", "no choice", "sink"}
       \/ pc = "abandoned" /\ failure \in {"await_stream", "streaming"}

(* C2: a streamed turn that ends before the stream is exhausted (dropped   *)
(* by the caller, an item that is an error, an item without a choice, a    *)
(* failed write_str) appends no reply: the log is the log the turn started *)
(* from followed by the one User message, however many items were read.    *)
C2_NoPartialAppend ==
    CutShort =>
        /\ history = LogAfterSetup
        /\ ~regenerating => turn_base = pre.history

C2_SinkFailedMidStream ==
    /\ CutShort
    /\ failure = "sink"
    /\ Len(consumed) = 2
    /\ Len(response_content_buffer) = 2

(* The reply was pushed *)
Appended == StreamedTurn /\ (pc = "prompt" \/ Len(requests) = 2)

ClosingWriteFailed == StreamedTurn /\ failure = "closing write"

StreamedReply ==
    Message(StreamedRole(LastRole(consumed)), Concat(Fragments(consumed)), None)

(* While the loop runs, every item read has been applied in full: its      *)
(* fragment is in the buffer and on the terminal, its role and usage are   *)
(* in place, and nothing is pushed yet.                                    *)
AppliedInOrder ==
    (StreamedTurn /\ pc = "streaming") =>
        /\ Written(term) = Fragments(consumed)
        /\ response_content_buffer = Concat(Fragments(consumed))
        /\ response_role = LastRole(consumed)
        /\ token_usage = LastUsage(consumed, pre.token_usage)
        /\ history = LogAfterSetup

----------------------------------------------------------------------------
(* C4: create *)

JustCreated == pc = "started" /\ start_input.how = "new"

(* C4: after create the log is one System message whose content is the     *)
(* prompt given, startedAt is set, and title and usage are absent.         *)
C4_CreateSeedsSystem ==
    JustCreated =>
        /\ Len(history) = 1
        /\ history[1].role = "System"
        /\ history[1].content = start_input.prompt
        /\ IsSome(conversation_start)
        /\ conversation_title = None
        /\ token_usage = None

C4_CreatedWithSecondPrompt ==
    JustCreated /\ start_input.prompt = <<"q">> /\ Len(history) = 1

----------------------------------------------------------------------------
(* C5: the System message *)

SystemFirst(log) ==
    /\ log # <<>>
    /\ log[1].role = "System"
    /\ Cardinality({i \in 1..Len(log) : log[i].role = "System"}) = 1

StartedWellFormed ==
    \/ start_input.how = "new"
    \/ /\ start_input.how = "load"
       /\ IsSome(start_input.saved)
       /\ SystemFirst(Unwrap(start_input.saved).history)

(* C5: in every state reached from create, or from the load of a saved     *)
(* session, by turns, streamed turns, title requests and regenerations,    *)
(* the log begins with a System message and holds exactly one.             *)
C5_SystemFirst ==
    (pc # "start" /\ StartedWellFormed) => SystemFirst(history)

----------------------------------------------------------------------------
(* C6: a response without a choice *)

(* C6: when the response to a turn that is not streamed has no choice, the *)
(* turn returns an error to its caller instead of aborting the process,    *)
(* and the log is the log before the turn and the User message, with usage *)
(* and title as they were.                                                 *)
C6_NoChoiceIsAnError ==
    (PlainTurn /\ Len(requests) = 1 /\ failure = "no choice") =>
        /\ pc = "failed"
        /\ history = LogAfterSetup
        /\ token_usage = pre.token_usage
        /\ conversation_title = pre.conversation_title

----------------------------------------------------------------------------
(* C7, C8: regenerate and the log's frame *)

(* The text of the reply the turn received *)
ReplyReceived ==
    IF StreamedTurn
    THEN Concat(Fragments(consumed))
    ELSE term[Len(term)].text

EndsInExchange(log) ==
    /\ Len(log) >= 3
    /\ log[Len(log) - 1].role = "User"
    /\ log[Len(log)].role = "Assistant"

RegenerateDone == TurnDone /\ regenerating

(* C7: for a log of length n >= 3 that ends in a User message u and an     *)
(* Assistant message, a regeneration that succeeds leaves a log of length  *)
(* n: the first n-2 messages unchanged, message n-1 a User message with    *)
(* the content of u, the last message the new reply. Regenerating again    *)
(* does not grow the log.                                                  *)
C7_RegenerateKeepsLength ==
    (RegenerateDone /\ EndsInExchange(pre.history)) =>
        LET n == Len(pre.history)
        IN  /\ Len(history) = n
            /\ SubSeq(history, 1, n - 2) = SubSeq(pre.history, 1, n - 2)
            /\ history[n - 1] = UserMessage(pre.history[n - 1].content)
            /\ history[n].content = ReplyReceived
            /\ history[n].name = None

C7_RegeneratedAnExchange ==
    /\ RegenerateDone
    /\ EndsInExchange(pre.history)
    /\ turns = 2
    /\ Len(history) = 3
    /\ history[2].content = <<"h", "i">>

Larger(a, b) == IF a >= b THEN a ELSE b

(* C8: pop_last_message on an empty log gives nothing, raises no error and *)
(* leaves the log empty; on any other log it gives the last message and    *)
(* leaves the messages before it as they were. No operation changes the    *)
(* log except by pushing at the end or popping the last message: the log   *)
(* a turn starts from is a prefix of the log before it (two pops at most), *)
(* and the log after it extends that prefix by the pushes.                 *)
C8_PushAndPopOnly ==
    pc # "start" =>
        LET n == Len(pre.history)
        IN  /\ IsPrefix(turn_base, pre.history)
            /\ ~regenerating => turn_base = pre.history
            /\ regenerating =>
                   /\ Len(turn_base) = Larger(n - 2, 0)
                   /\ user_question =
                          (IF n >= 2 THEN pre.history[n - 1].content ELSE <<>>)
            /\ IsPrefix(turn_base, history)
            /\ Len(history) - Len(turn_base) <= 2
            /\ InTurn => IsPrefix(LogAfterSetup, history)

C8_PoppedAnEmptyLog ==
    /\ regenerating
    /\ pre.history = <<>>
    /\ turn_base = <<>>
    /\ history = <<UserMessage(<<>>)>>

----------------------------------------------------------------------------
(* C9, C10: the token estimate *)

(* What a message adds to the estimate *)
MessageTokens(message) ==
    (IF message.role = "User" /\ IsSome(message.name)
     THEN 3 + EncodedLen(Unwrap(message.name))
     ELSE 4)
        + EncodedLen(RoleToString(message.role))
        + EncodedLen(message.content)

RECURSIVE SumTokens(_)
SumTokens(log) ==
    IF log = <<>>
    THEN 0
    ELSE SumTokens(SubSeq(log, 1, Len(log) - 1)) + MessageTokens(log[Len(log)])

Printed == pc = "prompt" /\ requests = <<>> /\ HasEstimate(term)

(* C9: the estimate is -1 plus, over the messages, 4 + tokens(role label)  *)
(* + tokens(content), where a User message with a name gives 3 +           *)
(* tokens(name) + tokens(role label) + tokens(content); a name on a System *)
(* or Assistant message changes nothing, and the empty log gives -1.       *)
C9_EstimateIsTheSum ==
    HasEstimate(term) =>
        /\ EstimateOf(term) = SumTokens(EstimatedLog) - 1
        /\ EstimatedLog = <<>> => EstimateOf(term) = -1

C9_EstimatedNamedMessages ==
    /\ Printed
    /\ history = ForeignLog
    /\ EstimateOf(term) = 17 + LongTextTokens

----------------------------------------------------------------------------
(* C11, C12: the usage snapshot *)

PlainReplied == PlainTurn /\ consumed # <<>>

(* C12: after a turn that is not streamed, a response with a usage figure  *)
(* makes that figure the session's usage, and a response without one       *)
(* leaves the usage recorded before as it was.                             *)
C12_UsageKeptWithoutFigure ==
    PlainReplied =>
        token_usage = (IF IsSome(consumed[1].usage)
                       THEN consumed[1].usage
                       ELSE pre.token_usage)

----------------------------------------------------------------------------
(* C13, C14: the title *)

(* The iteration sent a title request *)
TitleAsked == requests # <<>> /\ Last(requests).purpose = "title"

ForcedTitle == TitleAsked /\ Len(requests) = 1

(* The turn pushed its reply *)
Replied == InTurn /\ Len(history) = Len(LogAfterSetup) + 1

(* C13: a turn sends the title request only when the session has no title; *)
(* after a turn that succeeds the title is there; once it is there a later *)
(* turn leaves it as it is and sends no title request; only the forced     *)
(* populate_title replaces a title.                                        *)
C13_LazyTitle ==
    /\ (InTurn /\ TitleAsked) => pre.conversation_title = None
    /\ (Replied /\ pre.conversation_title = None) => TitleAsked
    /\ TurnDone => IsSome(conversation_title)
    /\ (InTurn /\ IsSome(pre.conversation_title)) =>
           /\ conversation_title = pre.conversation_title
           /\ Len(requests) = 1
    /\ (pc # "start" /\ IsSome(pre.conversation_title)
            /\ conversation_title # pre.conversation_title) =>
           /\ ForcedTitle
           /\ IsSome(conversation_title)

C13_SecondTurnKeepsTitle ==
    /\ TurnDone
    /\ turns = 2
    /\ IsSome(pre.conversation_title)
    /\ conversation_title = pre.conversation_title
    /\ Len(requests) = 1

(* The text of the title response, by the title it gave *)
TitleGiven(title) == \E text \in TitleTexts : title = Some(Trim(text))

(* C14: populate_title changes nothing but the title: the log and the      *)
(* usage are the same before and after, whether it succeeds or fails; on   *)
(* success the title is the trimmed response text; on a failure (the       *)
(* request fails, or the response has no choice) an error is returned and  *)
(* the title keeps the value it had.                                       *)
C14_TitleOnlyChangesTitle ==
    TitleAsked =>
        /\ Last(requests).messages = Push(history, UserMessage(TitleQuestion))
        /\ token_usage =
               (IF ForcedTitle
                THEN pre.token_usage
                ELSE IF StreamedTurn
                     THEN LastUsage(consumed, pre.token_usage)
                     ELSE consumed[1].usage)
        /\ (pc = "prompt") => TitleGiven(conversation_title)
        /\ (pc \in TitleCallers) =>
               conversation_title = pre.conversation_title
        /\ (pc \notin TitleCallers \cup {"prompt", "abandoned"}) =>
               /\ pc = "failed"
               /\ conversation_title = pre.conversation_title

----------------------------------------------------------------------------
(* C15: where save_to_file writes *)

(* C15: the location of a save depends on startedAt and the title only:    *)
(* saves of a session with the same title write one and the same file and  *)
(* overwrite it, so the number of files does not grow with the turns; for  *)
(* a session that was created and for one that was loaded.                 *)
C15_OneLocationPerTitle ==
    \A i, j \in 1..Len(saves) :
        (i < j /\ saves[i].title = saves[j].title) =>
            /\ saves[i].name = saves[j].name
            /\ saves[j].files = saves[i].files

----------------------------------------------------------------------------
(* C16: what a cut-short streamed turn leaves behind *)

(* C16: after a streamed turn is dropped or fails while the stream is read *)
(* the session is as it was before the turn, but for the User message:     *)
(* usage, title and startedAt have the values from before the turn.        *)
C16_CutShortRestoresSession ==
    CutShort =>
        /\ token_usage = pre.token_usage
        /\ conversation_title = pre.conversation_title
        /\ conversation_start = pre.conversation_start
        /\ history = LogAfterSetup

----------------------------------------------------------------------------
(* C17: get_all_saved_conversations *)

IsRegularFile(entry) == entry.kind = "file"

RegularFiles(entries) ==
    LET regular == SelectSeq(entries, IsRegularFile)
    IN  [k \in 1..Len(regular) |-> regular[k].name]

Listed == pc = "listed"

----------------------------------------------------------------------------
(* C18, C19: the sink and the role of the streamed reply *)

WithContent(items) ==
    {i \in 1..Len(items) : IsSome(items[i].content)}

WithText(items) ==
    {i \in WithContent(items) : Unwrap(items[i].content) # <<>>}

(* The loop has read these items and none of its writes failed *)
Streamed == StreamedTurn /\ pc # "await_stream" /\ failure # "sink"

(* C18 as claimed: write_str is called once for each item with a content   *)
(* that is not empty, and never for an item whose content is absent or is  *)
(* the empty string.                                                       *)
C18_SinkSkipsEmptyContent ==
    Streamed => Len(Written(term)) = Cardinality(WithText(consumed))

(* C18 as the code has it: write_str is called once for each item that     *)
(* carries a content, the empty string included, and never for an item     *)
(* whose content is absent.                                                *)
C18_SinkCalledPerContent ==
    Streamed =>
        /\ Len(Written(term)) = Cardinality(WithContent(consumed))
        /\ \A k \in 1..Len(Written(term)) :
               \E i \in WithContent(consumed) :
                   /\ Cardinality({j \in WithContent(consumed) : j <= i}) = k
                   /\ Written(term)[k] = Unwrap(consumed[i].content)

C18_AbsentEmptyAndText ==
    /\ Streamed
    /\ pc = "streaming"
    /\ Len(consumed) = 3
    /\ consumed[1].content = None
    /\ consumed[2].content = Some(<<>>)
    /\ consumed[3].content = Some(<<"a">>)
    /\ Written(term) = << <<>>, <<"a">> >>

(* C19: the reply pushed when the stream is exhausted has the role of the  *)
(* last item that carried a role, and Assistant when none did; an item     *)
(* without a role does not reset a role seen before.                       *)
C19_StreamedRoleIsLastSeen ==
    /\ (StreamedTurn /\ pc = "streaming") =>
           response_role = LastRole(consumed)
    /\ Appended =>
           history[Len(LogAfterSetup) + 1].role =
               (IF \E i \in 1..Len(consumed) : IsSome(consumed[i].role)
                THEN Unwrap(LastRole(consumed))
                ELSE "Assistant")

C19_RoleOutlivesLaterItems ==
    /\ Appended
    /\ Len(consumed) = 3
    /\ consumed[1].role = Some("Assistant")
    /\ consumed[2].role = Some("User")
    /\ consumed[3].role = None
    /\ Last(history).role = "User"

----------------------------------------------------------------------------
(* C20: the request of a turn *)

AwaitingReply == InTurn /\ pc \in {"await_reply", "await_stream"}

(* C20: the messages a turn sends are the session's log at that moment, in *)
(* order, with the new User message last; the User message is pushed       *)
(* before the request is sent.                                             *)
C20_RequestIsTheLog ==
    /\ AwaitingReply =>
           /\ requests[1].messages = history
           /\ Len(requests) = 1
    /\ InTurn =>
           LET sent == requests[1].messages
           IN  /\ Len(sent) = Len(turn_base) + 1
               /\ SubSeq(sent, 1, Len(turn_base)) = turn_base
               /\ sent[Len(sent)] = UserMessage(user_question)
               /\ IsPrefix(sent, history)

C20_SecondQuestionSent ==
    /\ AwaitingReply
    /\ ~regenerating
    /\ turns = 2
    /\ Len(requests[1].messages) = 4
    /\ requests[1].messages = history

----------------------------------------------------------------------------
(* C21: one request, no retry *)

RequestsFor(purpose) ==
    {i \in 1..Len(requests) : requests[i].purpose = purpose}

(* A remote call of the turn failed *)
ReplyCallFailed ==
    InTurn /\ pc = "failed" /\ failure \in {"transport", "decode"}

TitleCallFailed ==
    InTurn /\ pc = "failed" /\ failure = "title transport"

OneRequestEach ==
    InTurn =>
        /\ Cardinality(RequestsFor("reply")) = 1
        /\ Cardinality(RequestsFor("title")) <= 1
        /\ Len(requests) <= 2

(* C21 as claimed: a turn sends one request for the reply and at most one  *)
(* for the title; when a remote call fails it is not sent again, the error *)
(* is returned, and the log is the log before the turn and the User        *)
(* message.                                                                *)
C21_FailedCallLeavesUserOnly ==
    /\ OneRequestEach
    /\ (InTurn /\ failure \in {"transport", "decode", "title transport"}) =>
           /\ pc = "failed"
           /\ history = LogAfterSetup

(* C21 as the code has it: one request for the reply and at most one for   *)
(* the title, never sent again, the error returned; when the reply's call  *)
(* fails the log is the log before the turn and the User message, and when *)
(* the title's call fails the reply is in the log as well.                 *)
C21_NoRetryErrorReturned ==
    /\ OneRequestEach
    /\ (InTurn /\ failure \in {"transport", "decode", "title transport"}) =>
           pc = "failed"
    /\ ReplyCallFailed =>
           /\ history = LogAfterSetup
           /\ Len(requests) = 1
    /\ TitleCallFailed =>
           /\ Len(history) = Len(LogAfterSetup) + 1
           /\ IsPrefix(LogAfterSetup, history)
           /\ Len(requests) = 2

C21_ReplyCallFailedOnce ==
    /\ ReplyCallFailed
    /\ PlainTurn
    /\ failure = "transport"
    /\ Len(requests) = 1
    /\ history = LogAfterSetup

----------------------------------------------------------------------------
(* C22: regenerate on a log of fewer than two messages *)

(* The message the turn pushed for the response it read *)
ReplyPushed ==
    IF StreamedTurn
    THEN StreamedReply
    ELSE Message(Unwrap(consumed[1].role), Unwrap(consumed[1].content), None)

DegenerateRegenerate ==
    RegenerateDone /\ Len(pre.history) < 2

(* C22: on a log of fewer than two messages regenerate pops what is there, *)
(* the System seed included, the second pop gives the empty string, and a  *)
(* User turn with the empty string is submitted; after the reply the log   *)
(* is [User "", reply], with no System message when the reply is an        *)
(* Assistant message.                                                      *)
C22_DegenerateRegenerate ==
    /\ (InTurn /\ regenerating /\ Len(pre.history) < 2) =>
           /\ turn_base = <<>>
           /\ user_question = <<>>
           /\ requests[1].messages = <<UserMessage(<<>>)>>
    /\ DegenerateRegenerate =>
           /\ history = <<UserMessage(<<>>), ReplyPushed>>
           /\ ReplyPushed.role = "Assistant" =>
                  \A i \in 1..Len(history) : history[i].role # "System"

C22_SeedPopped ==
    /\ DegenerateRegenerate
    /\ pre.history = <<Message("System", <<"p">>, None)>>
    /\ history = <<UserMessage(<<>>), Message("Assistant", <<"a">>, None)>>

(***************************************************************************)
(* C24: a turn is not atomic with respect to the title                     *)
(***************************************************************************)

SavedTurns == Len(saves)

(* C24: when the reply of a turn arrived and the title request that        *)
(* follows it fails, the turn ends in an error with the reply already      *)
(* appended to the log after the User message; without streaming the       *)
(* usage is already the one of the response; the title is absent as it     *)
(* was before the turn, and the session was saved for every earlier turn   *)
(* but not for this one.                                                   *)
C24_TitleFailureKeepsReply ==
    TitleCallFailed =>
        /\ history = Push(LogAfterSetup, ReplyPushed)
        /\ PlainTurn => token_usage = consumed[1].usage
        /\ conversation_title = None
        /\ pre.conversation_title = None
        /\ SavedTurns = turns - 1

C24_PlainTurnTitleFailed ==
    /\ TitleCallFailed
    /\ PlainTurn
    /\ pre.token_usage = None
    /\ token_usage = Some(7)
    /\ Len(history) = 3
    /\ Last(history) = Message("Assistant", <<"a">>, None)

(***************************************************************************)
(* C23: the shape of the log under successful turns                        *)
(***************************************************************************)

(* The session was created, and every turn begun so far returned Ok *)
CreatedAndIdle == start_input.how = "new" /\ pc = "prompt"

(* The log is the seed followed by one User message and one reply for each *)
(* question in `asked`, in that order                                      *)
TurnShaped(log, questions) ==
    /\ Len(log) = 1 + 2 * Len(questions)
    /\ log[1].role = "System"
    /\ \A i \in 1..Len(questions) : log[2 * i] = UserMessage(questions[i])

(* C23: after create and k successful turns, streamed or not, with a       *)
(* regeneration counted as replacing the last turn, the log has length     *)
(* 1 + 2k: the System seed, then for each turn the User message with the   *)
(* submitted text, in submission order, followed by the reply to it; the   *)
(* last message is the reply of the last turn.                             *)
C23_LogShapeAfterTurns ==
    CreatedAndIdle =>
        /\ TurnShaped(history, asked)
        /\ TurnDone => Last(history) = ReplyPushed

(***************************************************************************)
(* C25: the input history is a bounded most-recent-first queue             *)
(***************************************************************************)

(* The p-th most recent of the lines written, 0 for the last one *)
Recent(written, p) == written[Len(written) - p]

Min(a, b) == IF a <= b THEN a ELSE b

HasRead == input_calls.read.pos >= 0

(* C25: after any sequence of writes the history holds the last lines      *)
(* written, at most max = 20 of them, the most recent first: a write on a  *)
(* full history has dropped the oldest entry and nothing else. read(p)     *)
(* gives the p-th most recent line, read(0) the last one written, and      *)
(* nothing for p at or beyond the current length.                          *)
C25_BoundedMostRecentFirst ==
    pc = "input" =>
        LET written == input_calls.written
            entries == input_history.history
            read == input_calls.read
        IN  /\ input_history.max = HistoryMax
            /\ Len(entries) <= HistoryMax
            /\ Len(entries) = Min(Len(written), HistoryMax)
            /\ \A p \in 0..(Len(entries) - 1) :
                   entries[p + 1] = Recent(written, p)
            /\ HasRead =>
                   read.result = IF read.pos < Len(entries)
                                 THEN Some(Recent(written, read.pos))
                                 ELSE None

(* A write on a full history, then a read of its last place *)
C25_OldestEvicted ==
    /\ pc = "input"
    /\ Len(input_calls.written) = HistoryMax + 1
    /\ Len(input_history.history) = HistoryMax
    /\ input_calls.read.pos = HistoryMax - 1
    /\ input_calls.read.result = Some(Line(2))
    /\ input_history.history[1] = Line(HistoryMax + 1)

====
